---- MODULE Spec2Model ----
(***************************************************************************)
(* potentials-utils: the prefix tree (prefixtree/prefix_tree.go), the      *)
(* composite track key and the Spotify library index and service           *)
(* (main.go).  Strings are sequences of runes; a rune is a natural number. *)
(***************************************************************************)
EXTENDS Integers, Sequences, FiniteSets, TLC

(* ------------------------------ bounds -------------------------------- *)
\* longest string added to a stand-alone prefix tree
MaxLen == 2
\* number of Add calls on a stand-alone prefix tree
MaxAdds == 3
\* longest string added to a prefix tree that is rendered
MaxWordLen == 3
\* number of Add calls on a prefix tree that is rendered
MaxWords == 2
\* longest song or album name given to trackIndexString
MaxNameLen == 2
\* longest artist name
MaxArtistLen == 1
\* most artists of one track
MaxArtists == 2
\* longest song or album name of the library
MaxTitleLen == 1
\* spotify IDs of the library: 1..NumIDs
NumIDs == 2
\* most saved tracks of the user's library
MaxTracks == 2
\* tracks of one page of the saved-tracks pager
PageLimit == 1
\* the configured cache lifetimes: 0..MaxLifetime
MaxLifetime == 1
\* the clock of the service over time runs from 1 to MaxNow
MaxNow == 3
MaxPlaylist == 2
MaxRequests == 3

\* the data rune of the root node, '\\'
RootRune == 92

\* the runes of the strings: two, so that trees branch and names sort
Runes == {1, 2}
\* the runes of the song and album names of the library
TitleRunes == {1}

\* all sequences over S of length 0..n
RECURSIVE SeqsUpTo(_, _)
SeqsUpTo(S, n) ==
    IF n = 0 THEN {<<>>}
    ELSE LET shorter == SeqsUpTo(S, n - 1)
         IN  shorter \cup {Append(q, x) : q \in {r \in shorter : Len(r) = n - 1}, x \in S}

Strings == SeqsUpTo(Runes, MaxLen)

IsPrefix(p, s) == Len(p) <= Len(s) /\ SubSeq(s, 1, Len(p)) = p

(* ---------------------------- prefix tree ----------------------------- *)
(* A *prefixNode is an index into the sequence of allocated nodes; the     *)
(* children map of a node is a function from the runes it has a child for  *)
(* to that child's index.                                                  *)

newPrefixNode(c) == [data |-> c, children |-> <<>>]

NewPrefixTree == [Root |-> 1, nodes |-> <<newPrefixNode(RootRune)>>]

\* the body of Add's loop from the i-th rune of s on, `next` the current node
RECURSIVE AddLoop(_, _, _, _)
AddLoop(nodes, next, s, i) ==
    IF i > Len(s) THEN nodes
    ELSE LET c == s[i]
         IN  IF c \notin DOMAIN nodes[next].children
             THEN LET prefixNode == Len(nodes) + 1
                      allocated  == Append(nodes, newPrefixNode(c))
                      linked     == [allocated EXCEPT
                                       ![next].children = (c :> prefixNode) @@ @]
                  IN  AddLoop(linked, prefixNode, s, i + 1)
             ELSE AddLoop(nodes, nodes[next].children[c], s, i + 1)

\* a slip of Add: the child is (re)created whether or not it exists
RECURSIVE AddLoopAlwaysNew(_, _, _, _)
AddLoopAlwaysNew(nodes, next, s, i) ==
    IF i > Len(s) THEN nodes
    ELSE LET c == s[i]
             prefixNode == Len(nodes) + 1
             allocated  == Append(nodes, newPrefixNode(c))
             linked     == [allocated EXCEPT
                              ![next].children =
                                  [r \in DOMAIN @ \cup {c} |->
                                      IF r = c THEN prefixNode ELSE @[r]]]
         IN  AddLoopAlwaysNew(linked, prefixNode, s, i + 1)

AddAlwaysNew(p, s) == [p EXCEPT !.nodes = AddLoopAlwaysNew(p.nodes, p.Root, s, 1)]

\* a slip of Add: the end of the string is marked by one more node
AddEndMarked(p, s) ==
    [p EXCEPT !.nodes = AddLoop(p.nodes, p.Root, Append(s, RootRune), 1)]

Add(p, s) == [p EXCEPT !.nodes = AddLoop(p.nodes, p.Root, s, 1)]

\* the body of Contains' loop from the i-th rune of s on
RECURSIVE ContainsLoop(_, _, _, _)
ContainsLoop(nodes, next, s, i) ==
    IF i > Len(s) THEN TRUE
    ELSE LET c == s[i]
         IN  IF c \notin DOMAIN nodes[next].children
             THEN FALSE
             ELSE ContainsLoop(nodes, nodes[next].children[c], s, i + 1)

\* a slip of Contains: only a walk that ends on a leaf counts
RECURSIVE ContainsLoopLeaf(_, _, _, _)
ContainsLoopLeaf(nodes, next, s, i) ==
    IF i > Len(s) THEN DOMAIN nodes[next].children = {}
    ELSE LET c == s[i]
         IN  IF c \notin DOMAIN nodes[next].children
             THEN FALSE
             ELSE ContainsLoopLeaf(nodes, nodes[next].children[c], s, i + 1)

ContainsLeafOnly(p, s) == ContainsLoopLeaf(p.nodes, p.Root, s, 1)

Contains(p, s) == ContainsLoop(p.nodes, p.Root, s, 1)

\* the orders in which `range` may visit a map: all sequences of the elements
\* of S, each once
RECURSIVE Orders(_)
Orders(S) ==
    IF S = {} THEN {<<>>}
    ELSE UNION {{<<x>> \o r : r \in Orders(S \ {x})} : x \in S}

\* childPrefixes and childNodes of node n: the keys, and the values, of its
\* children map in any order
childPrefixes(nodes, n) == Orders(DOMAIN nodes[n].children)
childNodes(nodes, n) == Orders({nodes[n].children[c] : c \in DOMAIN nodes[n].children})

\* the rune ','
Comma == 44

\* the loop of String(): `written` is the sequence of the nodes whose rune was
\* written so far (the rune of a node is its key in the parent's map); the
\* set of the sequences the loop may end with
RECURSIVE StringLoop(_, _, _, _)
StringLoop(nodes, next, q, written) ==
    IF q = <<>> THEN {written}
    ELSE UNION {
           LET now2 == written \o [i \in 1..Len(cp) |-> nodes[next].children[cp[i]]]
               popped == q[Len(q)]
               front == SubSeq(q, 1, Len(q) - 1)
           IN  UNION {StringLoop(nodes, popped, front \o cn, now2) :
                        cn \in childNodes(nodes, popped)}
           : cp \in childPrefixes(nodes, next)}

\* str.WriteRune(p); str.WriteRune(',') for each node written
RECURSIVE Rendered(_, _)
Rendered(nodes, written) ==
    IF written = <<>> THEN <<>>
    ELSE <<nodes[Head(written)].data, Comma>> \o Rendered(nodes, Tail(written))

\* a slip of String(): the runes are joined by commas, none after the last
StringJoined(p) ==
    {[out |-> IF w = <<>> THEN <<>>
              ELSE SubSeq(Rendered(p.nodes, w), 1, 2 * Len(w) - 1),
      nodes |-> w] :
        w \in UNION {StringLoop(p.nodes, p.Root, q, <<>>) :
                       q \in childNodes(p.nodes, p.Root)}}

\* String(): the strings it may return, each with the nodes in the order
\* their runes were written
String(p) ==
    {[out |-> Rendered(p.nodes, w), nodes |-> w] :
        w \in UNION {StringLoop(p.nodes, p.Root, q, <<>>) :
                       q \in childNodes(p.nodes, p.Root)}}

\* wordsHelper(n, word): the lists it may return; WordsOver is its loop over
\* the child nodes cn, each child given a buffer holding a copy of word
RECURSIVE wordsHelper(_, _, _)
RECURSIVE WordsOver(_, _, _)
wordsHelper(nodes, n, word) ==
    LET w == Append(word, nodes[n].data)
    IN  IF DOMAIN nodes[n].children = {} THEN {<<w>>}
        ELSE UNION {WordsOver(nodes, cn, w) : cn \in childNodes(nodes, n)}

WordsOver(nodes, cn, word) ==
    IF cn = <<>> THEN {<<>>}
    ELSE {a \o b : a \in wordsHelper(nodes, Head(cn), word),
                   b \in WordsOver(nodes, Tail(cn), word)}

\* a slip of Words(): the walk starts at the root, whose rune is no symbol
WordsFromRoot(p) == wordsHelper(p.nodes, p.Root, <<>>)

\* Words(): the lists it may return
Words(p) ==
    UNION {WordsOver(p.nodes, cn, <<>>) : cn \in childNodes(p.nodes, p.Root)}

(* ------------------------- composite track key ------------------------ *)
\* a < b in the byte-wise lexicographic order sort.Strings uses
RECURSIVE StrLess(_, _)
StrLess(a, b) ==
    IF Len(b) = 0 THEN FALSE
    ELSE IF Len(a) = 0 THEN TRUE
    ELSE IF a[1] # b[1] THEN a[1] < b[1]
    ELSE StrLess(Tail(a), Tail(b))

\* x put into the ascending list `sorted`, before the first element above it
RECURSIVE InsertSorted(_, _)
InsertSorted(x, sorted) ==
    IF sorted = <<>> THEN <<x>>
    ELSE IF StrLess(x, Head(sorted)) THEN <<x>> \o sorted
    ELSE <<Head(sorted)>> \o InsertSorted(x, Tail(sorted))

\* a slip of sort.Strings' caller: the list is left in the order given
SortStringsNot(list) == list

\* sort.Strings: the list in ascending order
RECURSIVE SortStrings(_)
SortStrings(list) ==
    IF list = <<>> THEN <<>>
    ELSE InsertSorted(Head(list), SortStrings(Tail(list)))

\* the strings of a list written one after the other
RECURSIVE WriteStrings(_)
WriteStrings(list) ==
    IF list = <<>> THEN <<>> ELSE Head(list) \o WriteStrings(Tail(list))

\* a slip of trackIndexString: the album is written before the song name
trackIndexStringAlbumFirst(trackName, albumName, artistNames) ==
    albumName \o trackName \o WriteStrings(SortStrings(artistNames))

trackIndexString(trackName, albumName, artistNames) ==
    trackName \o albumName \o WriteStrings(SortStrings(artistNames))

(* ----------------------------- library index -------------------------- *)
(* A spotify.SavedTrack is [ID, Name, Album, Artists]: Album is Album.Name  *)
(* and Artists the list of the Artists' names.  An error is a string, ""    *)
(* is nil.                                                                  *)

\* the zero time.Time of a zero-value index; the clock starts after it
ZeroTime == 0

\* a nil *PrefixTree
NilTree == [Root |-> 0, nodes |-> <<>>]

getArtistNames(t) == t.Artists

\* a slip of containsAll: the lists are compared position by position
containsAllInOrder(list1, list2) == list1 = list2

containsAll(list1, list2) ==
    IF Len(list2) # Len(list2) THEN FALSE
    ELSE \A i \in 1..Len(list1) : \E j \in 1..Len(list2) : list1[i] = list2[j]

\* the zero value &SpotifyLibraryIndex{}: nil map, nil tree
ZeroIndex ==
    [tracksByID |-> <<>>, trackSearchTree |-> NilTree,
     lifetime |-> 0, evictionTime |-> ZeroTime, indexed |-> <<>>]

\* `indexed` is history, not a field of the struct: the tracks given to
\* IndexTrack since the index was created, in call order.
NewSpotifyLibraryIndex(cfgLifetime, t) ==
    [tracksByID |-> <<>>, trackSearchTree |-> NewPrefixTree,
     lifetime |-> cfgLifetime, evictionTime |-> t, indexed |-> <<>>]

addTrackToSearchTree(tr, v) ==
    Add(tr, trackIndexString(v.Name, v.Album, getArtistNames(v)))

\* a slip of IndexTrack: a track whose id is already in the map is skipped
IndexTrackKeepFirst(i, k, v) ==
    IF k \in DOMAIN i.tracksByID
    THEN [i EXCEPT !.indexed = Append(@, v)]
    ELSE [i EXCEPT !.tracksByID = (k :> v) @@ @,
                   !.trackSearchTree = addTrackToSearchTree(@, v),
                   !.indexed = Append(@, v)]

\* a slip of IndexTrack: the search tree is fed only for a new id
IndexTrackTreeOnce(i, k, v) ==
    [i EXCEPT !.tracksByID = (k :> v) @@ @,
              !.trackSearchTree = IF k \in DOMAIN i.tracksByID THEN @
                                  ELSE addTrackToSearchTree(@, v),
              !.indexed = Append(@, v)]

\* a slip of IndexTrack: it extends the life of the index by its lifetime
IndexTrackRefreshing(i, k, v) ==
    [i EXCEPT !.tracksByID = (k :> v) @@ @,
              !.trackSearchTree = addTrackToSearchTree(@, v),
              !.evictionTime = @ + i.lifetime,
              !.indexed = Append(@, v)]

IndexTrack(i, k, v) ==
    [i EXCEPT !.tracksByID = (k :> v) @@ @,
              !.trackSearchTree = addTrackToSearchTree(@, v),
              !.indexed = Append(@, v)]

\* a slip of MakeItFresh: the index lives one instant longer than its lifetime
MakeItFreshLate(i, t) == [i EXCEPT !.evictionTime = t + i.lifetime + 1]

MakeItFresh(i, t) == [i EXCEPT !.evictionTime = t + i.lifetime]

\* a slip of Alive: every index lives, the zero value too
AliveAlways(i, t) == TRUE

\* a slip of Alive: the index still lives at its evictionTime
AliveAtEviction(i, t) == t <= i.evictionTime

Alive(i, t) == t < i.evictionTime

\* for _, t := range tracks { index.IndexTrack(t.ID, t) }
RECURSIVE IndexTracks(_, _)
IndexTracks(i, tracks) ==
    IF tracks = <<>> THEN i
    ELSE IndexTracks(IndexTrack(i, Head(tracks).ID, Head(tracks)), Tail(tracks))

(* ---------------------------- library service ------------------------- *)
(* The cache file is [state, expiration, tracks], state "missing",          *)
(* "corrupt" or "ok".  The source is the list of the pager's pages; failAt  *)
(* tells which fetch fails with an error other than ErrNoMorePages: 0 is    *)
(* CurrentUsersTracks, n > 0 the n-th NextPage, NoFail none.                *)

NoFail == 0 - 1

MissingFile == [state |-> "missing", expiration |-> ZeroTime, tracks |-> <<>>]
CorruptFile == [state |-> "corrupt", expiration |-> ZeroTime, tracks |-> <<>>]

\* the pages the pager serves for a library, PageLimit tracks each; an empty
\* library is one empty page
RECURSIVE PagesOf(_)
PagesOf(lib) ==
    IF Len(lib) <= PageLimit THEN <<lib>>
    ELSE <<SubSeq(lib, 1, PageLimit)>> \o PagesOf(SubSeq(lib, PageLimit + 1, Len(lib)))

\* the values of the map in ascending order of their keys (one of the orders
\* `range` may take)
RECURSIVE MapValues(_)
MapValues(m) ==
    IF DOMAIN m = {} THEN <<>>
    ELSE LET k == CHOOSE x \in DOMAIN m : \A y \in DOMAIN m : x <= y
         IN  <<m[k]>> \o MapValues([y \in DOMAIN m \ {k} |-> m[y]])

\* persistLibrary: [file, err]; writeOk is whether MkdirAll and WriteFile succeed
persistLibrary(index, file, writeOk) ==
    IF writeOk
    THEN [file |-> [state |-> "ok", expiration |-> index.evictionTime,
                    tracks |-> MapValues(index.tracksByID)],
          err |-> ""]
    ELSE [file |-> file, err |-> "write"]

\* the loop of indexFromSpotify from page n on: [index, err, fetches], fetches
\* the number of NextPage calls made (the last one fails or reports
\* ErrNoMorePages)
RECURSIVE DrainPages(_, _, _, _)
DrainPages(index, pages, n, failAt) ==
    LET filled == IndexTracks(index, pages[n])
    IN  IF failAt = n THEN [index |-> filled, err |-> "fetch", fetches |-> n]
        ELSE IF n = Len(pages) THEN [index |-> filled, err |-> "", fetches |-> n]
        ELSE DrainPages(filled, pages, n + 1, failAt)

\* a slip of indexFromSpotify: the index is installed before the drain ends
indexFromSpotifyKeepsPartial(libraryIndex, cfgLifetime, pages, failAt, t) ==
    IF failAt = 0 THEN [index |-> libraryIndex, err |-> "fetch", fetches |-> 1]
    ELSE LET drained == DrainPages(NewSpotifyLibraryIndex(cfgLifetime, t), pages, 1, failAt)
         IN  IF drained.err # ""
             THEN [index |-> drained.index, err |-> drained.err,
                   fetches |-> 1 + drained.fetches]
             ELSE [index |-> MakeItFresh(drained.index, t), err |-> "",
                   fetches |-> 1 + drained.fetches]

\* indexFromSpotify: [index, err, fetches], index the service's libraryIndex
\* afterwards, fetches the number of calls made to the source
indexFromSpotify(libraryIndex, cfgLifetime, pages, failAt, t) ==
    IF failAt = 0 THEN [index |-> libraryIndex, err |-> "fetch", fetches |-> 1]
    ELSE LET drained == DrainPages(NewSpotifyLibraryIndex(cfgLifetime, t), pages, 1, failAt)
         IN  IF drained.err # ""
             THEN [index |-> libraryIndex, err |-> drained.err,
                   fetches |-> 1 + drained.fetches]
             ELSE [index |-> MakeItFresh(drained.index, t), err |-> "",
                   fetches |-> 1 + drained.fetches]

\* a slip of indexFromCacheFile: the stored expiration is not taken over
indexFromCacheFileKeepsNow(libraryIndex, cfgLifetime, file, t) ==
    IF file.state = "missing" THEN [index |-> libraryIndex, err |-> "open"]
    ELSE IF file.state = "corrupt" THEN [index |-> libraryIndex, err |-> "unmarshal"]
    ELSE [index |-> IndexTracks(NewSpotifyLibraryIndex(cfgLifetime, t), file.tracks),
          err |-> ""]

\* indexFromCacheFile: [index, err]
indexFromCacheFile(libraryIndex, cfgLifetime, file, t) ==
    IF file.state = "missing" THEN [index |-> libraryIndex, err |-> "open"]
    ELSE IF file.state = "corrupt" THEN [index |-> libraryIndex, err |-> "unmarshal"]
    ELSE LET filled == IndexTracks(NewSpotifyLibraryIndex(cfgLifetime, t), file.tracks)
         IN  [index |-> [filled EXCEPT !.evictionTime = file.expiration], err |-> ""]

\* a slip of readyLibrary: the source is drained whatever the cache file gave
readyLibraryAlwaysSource(libraryIndex, cfgLifetime, file, pages, failAt, t) ==
    IF Alive(libraryIndex, t)
    THEN [index |-> libraryIndex, err |-> "", restored |-> FALSE, fetches |-> 0]
    ELSE LET cached == indexFromCacheFile(libraryIndex, cfgLifetime, file, t)
             built == indexFromSpotify(cached.index, cfgLifetime, pages, failAt, t)
         IN  [index |-> built.index, err |-> built.err,
              restored |-> TRUE, fetches |-> built.fetches]

\* a slip of readyLibrary: the error of indexFromCacheFile is returned
readyLibraryStrict(libraryIndex, cfgLifetime, file, pages, failAt, t) ==
    IF Alive(libraryIndex, t)
    THEN [index |-> libraryIndex, err |-> "", restored |-> FALSE, fetches |-> 0]
    ELSE LET cached == indexFromCacheFile(libraryIndex, cfgLifetime, file, t)
         IN  IF cached.err # ""
             THEN [index |-> cached.index, err |-> cached.err,
                   restored |-> TRUE, fetches |-> 0]
             ELSE IF Alive(cached.index, t)
             THEN [index |-> cached.index, err |-> "", restored |-> TRUE, fetches |-> 0]
             ELSE LET built == indexFromSpotify(cached.index, cfgLifetime, pages, failAt, t)
                  IN  [index |-> built.index, err |-> built.err,
                       restored |-> TRUE, fetches |-> built.fetches]

\* a slip of readyLibrary: the cache file is tried whether or not the index
\* is alive
readyLibraryNoShortcut(libraryIndex, cfgLifetime, file, pages, failAt, t) ==
    LET cached == indexFromCacheFile(libraryIndex, cfgLifetime, file, t)
    IN  IF Alive(cached.index, t)
        THEN [index |-> cached.index, err |-> "", restored |-> TRUE, fetches |-> 0]
        ELSE LET built == indexFromSpotify(cached.index, cfgLifetime, pages, failAt, t)
             IN  [index |-> built.index, err |-> built.err,
                  restored |-> TRUE, fetches |-> built.fetches]

\* readyLibrary: [index, err, restored, fetches], restored whether
\* indexFromCacheFile was called, fetches the number of calls made to the source
readyLibrary(libraryIndex, cfgLifetime, file, pages, failAt, t) ==
    IF Alive(libraryIndex, t)
    THEN [index |-> libraryIndex, err |-> "", restored |-> FALSE, fetches |-> 0]
    ELSE LET cached == indexFromCacheFile(libraryIndex, cfgLifetime, file, t)
         IN  IF Alive(cached.index, t)
             THEN [index |-> cached.index, err |-> "", restored |-> TRUE, fetches |-> 0]
             ELSE LET built == indexFromSpotify(cached.index, cfgLifetime, pages, failAt, t)
                  IN  [index |-> built.index, err |-> built.err,
                       restored |-> TRUE, fetches |-> built.fetches]

\* the map read of GetByID: the track, or {} for a nil pointer
TrackByID(index, k) ==
    IF k \in DOMAIN index.tracksByID THEN {index.tracksByID[k]} ELSE {}

\* a slip of the scan: a record matches when its key is the search string
MatchingTracksByKey(index, songName, albumName, artistNames) ==
    IF Contains(index.trackSearchTree,
                trackIndexString(songName, albumName, artistNames))
    THEN {index.tracksByID[k] : k \in
            {x \in DOMAIN index.tracksByID :
                LET v == index.tracksByID[x]
                IN  trackIndexString(v.Name, v.Album, getArtistNames(v))
                      = trackIndexString(songName, albumName, artistNames)}}
    ELSE {}

\* the scan of GetBySongAlbumArtistNames: the set of the tracks appended to
\* matches (the order of the slice is the map's); trackIndexString has sorted
\* artistNames in place by then
MatchingTracks(index, songName, albumName, artistNames) ==
    IF Contains(index.trackSearchTree,
                trackIndexString(songName, albumName, artistNames))
    THEN {index.tracksByID[k] : k \in
            {x \in DOMAIN index.tracksByID :
                LET v == index.tracksByID[x]
                IN  /\ v.Name = songName
                    /\ v.Album = albumName
                    /\ containsAll(getArtistNames(v), SortStrings(artistNames))}}
    ELSE {}

(* --------------------------- cleanPotentials -------------------------- *)
\* Can only remove 100 tracks per request.
BatchLimit == 100

\* a slip of FirstNIDs: the list is not cut
FirstNIDsWhole(ids, n) == <<ids, <<>>>>

FirstNIDs(ids, n) ==
    IF Len(ids) > n THEN <<SubSeq(ids, 1, n), SubSeq(ids, n + 1, Len(ids))>>
    ELSE <<ids, <<>>>>

\* a slip of cleanPotentials: the flag is not looked at
RemovesAlways(dryRun) == TRUE

\* if !dryRun
Removes(dryRun) == ~dryRun

\* ids = append(ids, t.Track.ID) for each duplicate
TrackIDs(l) == [i \in 1..Len(l) |-> l[i].ID]

\* getDuplicates from the tracks `page` on, `found` being duplicateTracks so
\* far: [duplicates, index, err], index the service's libraryIndex afterwards.
\* env is what the lookups meet: the configured lifetime, the cache file, the
\* source's pages and where a fetch fails, and the time.
RECURSIVE getDuplicatesFrom(_, _, _, _, _)
getDuplicatesFrom(index, page, aggressive, env, found) ==
    IF page = <<>> THEN [duplicates |-> found, index |-> index, err |-> ""]
    ELSE LET playlistTrack == Head(page)
             byID == readyLibrary(index, env.lifetime, env.file, env.pages,
                                  env.failAt, env.t)
         IN  IF byID.err # ""
             THEN [duplicates |-> <<>>, index |-> byID.index, err |-> byID.err]
             ELSE IF TrackByID(byID.index, playlistTrack.ID) # {}
             THEN getDuplicatesFrom(byID.index, Tail(page), aggressive, env,
                                    Append(found, playlistTrack))
             ELSE IF ~aggressive
             THEN getDuplicatesFrom(byID.index, Tail(page), aggressive, env, found)
             ELSE LET byKey == readyLibrary(byID.index, env.lifetime, env.file,
                                            env.pages, env.failAt, env.t)
                  IN  IF byKey.err # ""
                      THEN [duplicates |-> <<>>, index |-> byKey.index,
                            err |-> byKey.err]
                      ELSE IF MatchingTracks(byKey.index, playlistTrack.Name,
                                             playlistTrack.Album,
                                             getArtistNames(playlistTrack)) # {}
                      THEN getDuplicatesFrom(byKey.index, Tail(page), aggressive,
                                             env, Append(found, playlistTrack))
                      ELSE getDuplicatesFrom(byKey.index, Tail(page), aggressive,
                                             env, found)

\* a slip of getDuplicates: config.Duplicates.Aggressive is not looked at
getDuplicatesAlwaysAggressive(index, page, aggressive, env) ==
    getDuplicatesFrom(index, page, TRUE, env, <<>>)

getDuplicates(index, page, aggressive, env) ==
    getDuplicatesFrom(index, page, aggressive, env, <<>>)

\* the playlist after RemoveTracksFromPlaylist(playlistID, ids...)
WithoutIDs(playlist, ids) ==
    LET Kept(t) == \A i \in 1..Len(ids) : ids[i] # t.ID
    IN  SelectSeq(playlist, Kept)

(* ------------------------------- inputs ------------------------------- *)
\* the names given to trackIndexString
Names == SeqsUpTo(Runes, MaxNameLen)
NameLists == SeqsUpTo(SeqsUpTo(Runes, MaxArtistLen), MaxArtists)

\* the library's tracks: song and album names over the title runes, artist
\* names non-empty
IDs == 1..NumIDs
Titles == SeqsUpTo(TitleRunes, MaxTitleLen)
ArtistNames == SeqsUpTo(Runes, MaxArtistLen) \ {<<>>}
\* the artists of one track, no name twice
ArtistLists ==
    {l \in SeqsUpTo(ArtistNames, MaxArtists) :
        \A i, j \in 1..Len(l) : l[i] = l[j] => i = j}
Tracks == [ID : IDs, Name : Titles, Album : Titles, Artists : ArtistLists]
Libraries == SeqsUpTo(Tracks, MaxTracks)

\* the fetches of a drain of `pages` that may fail, and NoFail
FailPoints(pages) == {NoFail} \cup 0..Len(pages)

(* ------------------------------- state -------------------------------- *)
VARIABLES
    tree,           \* a stand-alone *PrefixTree
    hist,           \* the strings given to its Add so far, in call order
    keyCall,        \* a call of trackIndexString: its arguments, the caller's
                    \* slice of artist names and the string returned
    now,            \* time.Now()
    lifetime,       \* config.Cache.Lifetime
    library,        \* the user's saved tracks at Spotify, in pager order
    cacheFile,      \* the file s.CacheFile
    libraryService, \* the global libraryService: up is whether it is non-nil
    call,           \* the call of the service in progress: arguments and results
    shown,          \* the last String() or Words() of the stand-alone tree
    handlers,       \* server mode: the requests being handled, each at its
                    \* place in readyLibrary
    clean,          \* a run of cleanPotentials: its place, locals and requests
    auth            \* AuthMe: its place, the globals spClient and runserver,
                    \* the auth server and the senders waiting on clientCh

treeVars == <<tree, hist, shown>>
keyVars  == <<keyCall>>
svcVars  == <<now, lifetime, library, cacheFile, libraryService, call>>
runVars  == <<handlers, clean>>
authVars == <<auth>>
vars     == <<tree, hist, shown, keyCall, now, lifetime, library, cacheFile,
              libraryService, call, handlers, clean, auth>>

NoKeyCall ==
    [name |-> <<>>, album |-> <<>>, artists |-> <<>>, slice |-> <<>>,
     out |-> <<>>, done |-> FALSE]

\* Besides its arguments and results a call records what it met and did:
\* `before` the evictionTime of the service's index when it entered
\* readyLibrary, `cached` what the cache file was then, `restored` whether
\* indexFromCacheFile was called, `fetches` the number of calls made to the
\* source, `wrote` whether persistLibrary wrote the cache file.
NoCall ==
    [op |-> "none", id |-> 0, songName |-> <<>>, albumName |-> <<>>,
     artistNames |-> <<>>, ret |-> {}, err |-> "",
     before |-> ZeroTime, cached |-> "none", restored |-> FALSE, fetches |-> 0,
     wrote |-> FALSE]

\* what the cache file is at time t: "missing", "corrupt", or a snapshot whose
\* expiration is still ahead ("fresh") or not ("stale")
SnapshotAt(file, t) ==
    IF file.state # "ok" THEN file.state
    ELSE IF t < file.expiration THEN "fresh" ELSE "stale"

NilService == [up |-> FALSE, libraryIndex |-> ZeroIndex]

\* no String() or Words() was called
NoShow == [op |-> "none", out |-> <<>>, nodes |-> <<>>]

TreeIdle == tree = NewPrefixTree /\ hist = <<>> /\ shown = NoShow
KeyIdle  == keyCall = NoKeyCall

\* server mode: the requests net/http handles at once, each in a goroutine
Handlers == {1, 2}

\* a handler not inside readyLibrary.  Inside indexFromSpotify `index` is the
\* local variable index, `page` the number of the page trackPager holds and
\* `pager` its tracks; `seen` is history: the tracks of the pages indexed so
\* far.  `err` is what the handler's last readyLibrary returned, and
\* `replaced` is history: the ids of the index that the index it installed
\* replaced.
IdleHandler ==
    [pc |-> "idle", index |-> ZeroIndex, page |-> 0, pager |-> <<>>,
     seen |-> <<>>, err |-> "", replaced |-> {}]

\* no run of cleanPotentials.  `dryRun` is its argument, `aggressive` is
\* config.Duplicates.Aggressive, `playlist` the tracks of the Potentials
\* playlist at Spotify, `page` the number of the page the pager holds,
\* `duplicates` the local variable, `requests` history: the id lists of the
\* RemoveTracksFromPlaylist requests made, `ret` and `err` its results.
NoClean ==
    [pc |-> "none", dryRun |-> FALSE, aggressive |-> FALSE, playlist |-> <<>>,
     page |-> 0, duplicates |-> <<>>, requests |-> <<>>, ret |-> 0, err |-> ""]

\* spClient before any authentication
NilClient == 0

\* AuthMe not called yet.  `pc` is its place; `runserver` the flag;
\* `listening` whether an http server with the mux of authServer is serving;
\* `spClient` the global; `blocked` the clients whose HandleAuthCallback
\* waits at clientCh <- &c; `elapsed` the time since authMeWithTimeout
\* started its timer; `sessionKey` the global (0: not set yet); `err` the
\* error returned; `delivered` is history: the client last received from
\* clientCh.
NoAuth ==
    [pc |-> "init", runserver |-> FALSE, listening |-> FALSE,
     spClient |-> NilClient, sessionKey |-> 0, blocked |-> <<>>,
     elapsed |-> 0, err |-> "", delivered |-> NilClient]

AuthIdle == auth = NoAuth

RunIdle == handlers = [h \in Handlers |-> IdleHandler] /\ clean = NoClean
SvcIdle  ==
    /\ now = 1
    /\ lifetime = 0
    /\ library = <<>>
    /\ cacheFile = MissingFile
    /\ libraryService = NilService
    /\ call = NoCall

(* ------------------- a stand-alone prefix tree ------------------------ *)
InitTree ==
    /\ AuthIdle
    /\ tree = NewPrefixTree
    /\ hist = <<>>
    /\ shown = NoShow
    /\ KeyIdle
    /\ SvcIdle
    /\ RunIdle

\* tree.Add(s)
TreeAdd(s) ==
    /\ Len(hist) < MaxAdds
    /\ tree' = Add(tree, s)
    /\ hist' = Append(hist, s)
    /\ UNCHANGED <<shown, keyVars, svcVars, runVars, authVars>>

NextTree == \E s \in Strings : TreeAdd(s)

SpecTree == InitTree /\ [][NextTree]_vars

(* ------------------- rendering a prefix tree -------------------------- *)
WordStrings == SeqsUpTo(Runes, MaxWordLen)

\* tree.Add(s), before any rendering
WordsAdd(s) ==
    /\ shown = NoShow
    /\ Len(hist) < MaxWords
    /\ tree' = Add(tree, s)
    /\ hist' = Append(hist, s)
    /\ UNCHANGED <<shown, keyVars, svcVars, runVars, authVars>>

\* tree.String()
CallString ==
    /\ shown = NoShow
    /\ \E r \in String(tree) :
          shown' = [op |-> "String", out |-> r.out, nodes |-> r.nodes]
    /\ UNCHANGED <<tree, hist, keyVars, svcVars, runVars, authVars>>

\* tree.Words()
CallWords ==
    /\ shown = NoShow
    /\ \E ws \in Words(tree) :
          shown' = [op |-> "Words", out |-> ws, nodes |-> <<>>]
    /\ UNCHANGED <<tree, hist, keyVars, svcVars, runVars, authVars>>

NextWords ==
    \/ \E s \in WordStrings : WordsAdd(s)
    \/ CallString
    \/ CallWords

SpecWords == InitTree /\ [][NextWords]_vars

(* ----------------------- trackIndexString alone ----------------------- *)
InitKey ==
    /\ AuthIdle
    /\ \E n \in Names, a \in Names, l \in NameLists :
          keyCall = [name |-> n, album |-> a, artists |-> l, slice |-> l,
                     out |-> <<>>, done |-> FALSE]
    /\ TreeIdle
    /\ SvcIdle
    /\ RunIdle

\* out := trackIndexString(name, album, slice); sort.Strings sorts the caller's
\* slice in place
KeyDerive ==
    /\ ~keyCall.done
    /\ keyCall' = [keyCall EXCEPT
                     !.out = trackIndexString(keyCall.name, keyCall.album, keyCall.slice),
                     !.slice = SortStrings(@),
                     !.done = TRUE]
    /\ UNCHANGED <<treeVars, svcVars, runVars, authVars>>

NextKey == KeyDerive

SpecKey == InitKey /\ [][NextKey]_vars

(* --------------------------- library service -------------------------- *)
Init ==
    /\ AuthIdle
    /\ now = 1
    /\ lifetime \in 0..MaxLifetime
    /\ library \in Libraries
    /\ cacheFile \in {MissingFile, CorruptFile}
    /\ libraryService = NilService
    /\ call = NoCall
    /\ TreeIdle
    /\ KeyIdle
    /\ RunIdle

\* whether readyLibrary goes to the source: the index is stale and the cache
\* file does not give a fresh one
Rebuilds(libraryIndex, file, t) ==
    /\ ~Alive(libraryIndex, t)
    /\ ~Alive(indexFromCacheFile(libraryIndex, lifetime, file, t).index, t)

\* what the source may do during a call: nothing is fetched unless the call
\* rebuilds
SourceOutcomes(libraryIndex) ==
    IF Rebuilds(libraryIndex, cacheFile, now) THEN FailPoints(PagesOf(library))
    ELSE {NoFail}

\* libraryService, err = NewLibraryService(config.Cache.CacheDir), AuthMe
\* succeeding or not
NewLibraryService(authOk, failAt, writeOk) ==
    /\ ~libraryService.up
    /\ call = NoCall
    /\ \E ready \in {readyLibrary(ZeroIndex, lifetime, cacheFile, PagesOf(library),
                                  failAt, now)} :
         \E saved \in {persistLibrary(ready.index, cacheFile, writeOk)} :
           LET err == IF ~authOk THEN "auth"
                      ELSE IF ready.err # "" THEN ready.err
                      ELSE saved.err
           IN  /\ libraryService' =
                     IF err = "" THEN [up |-> TRUE, libraryIndex |-> ready.index]
                     ELSE NilService
               /\ cacheFile' = IF authOk /\ ready.err = "" THEN saved.file ELSE cacheFile
               /\ call' = IF ~authOk
                          THEN [NoCall EXCEPT !.op = "NewLibraryService", !.err = err]
                          ELSE [NoCall EXCEPT
                                  !.op = "NewLibraryService", !.err = err,
                                  !.before = ZeroIndex.evictionTime,
                                  !.cached = SnapshotAt(cacheFile, now),
                                  !.restored = ready.restored,
                                  !.fetches = ready.fetches,
                                  !.wrote = ready.err = "" /\ saved.err = ""]
    /\ UNCHANGED <<now, lifetime, library, treeVars, keyVars, runVars, authVars>>

\* v, err := libraryService.GetByID(k)
GetByID(k, failAt) ==
    /\ libraryService.up
    /\ call = NoCall
    /\ \E ready \in {readyLibrary(libraryService.libraryIndex, lifetime, cacheFile,
                                  PagesOf(library), failAt, now)} :
           /\ libraryService' = [libraryService EXCEPT !.libraryIndex = ready.index]
           /\ call' = [NoCall EXCEPT
                         !.op = "GetByID", !.id = k, !.err = ready.err,
                         !.before = libraryService.libraryIndex.evictionTime,
                         !.cached = SnapshotAt(cacheFile, now),
                         !.restored = ready.restored, !.fetches = ready.fetches,
                         !.ret = IF ready.err # "" THEN {}
                                 ELSE TrackByID(ready.index, k)]
    /\ UNCHANGED <<now, lifetime, library, cacheFile, treeVars, keyVars, runVars, authVars>>

\* matches, err := libraryService.GetBySongAlbumArtistNames(songName, albumName,
\* artistNames)
GetBySongAlbumArtistNames(songName, albumName, artistNames, failAt) ==
    /\ libraryService.up
    /\ call = NoCall
    /\ \E ready \in {readyLibrary(libraryService.libraryIndex, lifetime, cacheFile,
                                  PagesOf(library), failAt, now)} :
           /\ libraryService' = [libraryService EXCEPT !.libraryIndex = ready.index]
           /\ call' = [NoCall EXCEPT
                         !.op = "GetBySongAlbumArtistNames",
                         !.songName = songName, !.albumName = albumName,
                         !.artistNames = artistNames, !.err = ready.err,
                         !.before = libraryService.libraryIndex.evictionTime,
                         !.cached = SnapshotAt(cacheFile, now),
                         !.restored = ready.restored, !.fetches = ready.fetches,
                         !.ret = IF ready.err # "" THEN {}
                                 ELSE MatchingTracks(ready.index, songName,
                                                     albumName, artistNames)]
    /\ UNCHANGED <<now, lifetime, library, cacheFile, treeVars, keyVars, runVars, authVars>>

\* the caller takes the results of the call
Return ==
    /\ call # NoCall
    /\ call' = NoCall
    /\ UNCHANGED <<now, lifetime, library, cacheFile, libraryService, treeVars, keyVars, runVars, authVars>>

\* the process ends; the cache file stays for the next run
Exit ==
    /\ libraryService.up
    /\ call = NoCall
    /\ libraryService' = NilService
    /\ UNCHANGED <<now, lifetime, library, cacheFile, call, treeVars, keyVars, runVars, authVars>>

Next ==
    \/ \E authOk \in BOOLEAN, failAt \in SourceOutcomes(ZeroIndex), writeOk \in BOOLEAN :
          NewLibraryService(authOk, failAt, writeOk)
    \/ \E k \in IDs, failAt \in SourceOutcomes(libraryService.libraryIndex) :
          GetByID(k, failAt)
    \/ \E n \in Titles, a \in Titles, l \in ArtistLists,
          failAt \in SourceOutcomes(libraryService.libraryIndex) :
          GetBySongAlbumArtistNames(n, a, l, failAt)
    \/ Return
    \/ Exit

Spec == Init /\ [][Next]_vars

(* ------------------ the library service over time --------------------- *)
(* The same service with a library of bare tracks (an id, empty names, no   *)
(* artists), a clock that advances, and a cache file that the environment   *)
(* may remove, damage or replace.                                           *)

BareTracks == {t \in Tracks : t.Name = <<>> /\ t.Album = <<>> /\ t.Artists = <<>>}
BareLibraries == SeqsUpTo(BareTracks, MaxTracks)

InitTime ==
    /\ AuthIdle
    /\ now = 1
    /\ lifetime \in 0..MaxLifetime
    /\ library \in BareLibraries
    /\ cacheFile \in {MissingFile, CorruptFile}
    /\ libraryService = NilService
    /\ call = NoCall
    /\ TreeIdle
    /\ KeyIdle
    /\ RunIdle

\* time.Now() advances between the calls
Tick ==
    /\ call = NoCall
    /\ now < MaxNow
    /\ now' = now + 1
    /\ UNCHANGED <<lifetime, library, cacheFile, libraryService, call, treeVars, keyVars, runVars, authVars>>

\* the cache file is removed (os.Open fails) or damaged (json.Unmarshal fails)
LoseFile(f) ==
    /\ call = NoCall
    /\ cacheFile # f
    /\ cacheFile' = f
    /\ UNCHANGED <<now, lifetime, library, libraryService, call, treeVars, keyVars, runVars, authVars>>

\* another run of the program on the same cache directory builds its index
\* from the source and writes the cache file
OtherRun ==
    /\ call = NoCall
    /\ \E built \in {indexFromSpotify(ZeroIndex, lifetime, PagesOf(library), NoFail, now)} :
          cacheFile' = persistLibrary(built.index, cacheFile, TRUE).file
    /\ cacheFile' # cacheFile
    /\ UNCHANGED <<now, lifetime, library, libraryService, call, treeVars, keyVars, runVars, authVars>>

NextTime ==
    \/ \E authOk \in BOOLEAN, failAt \in SourceOutcomes(ZeroIndex), writeOk \in BOOLEAN :
          NewLibraryService(authOk, failAt, writeOk)
    \/ \E k \in IDs, failAt \in SourceOutcomes(libraryService.libraryIndex) :
          GetByID(k, failAt)
    \/ \E failAt \in SourceOutcomes(libraryService.libraryIndex) :
          GetBySongAlbumArtistNames(<<>>, <<>>, <<>>, failAt)
    \/ Return
    \/ Exit
    \/ Tick
    \/ \E f \in {MissingFile, CorruptFile} : LoseFile(f)
    \/ OtherRun

SpecTime == InitTime /\ [][NextTime]_vars

(* ------------------------------ server mode -------------------------- *)
(* After main has built the service, net/http runs HandleCleanPotentials   *)
(* in one goroutine per request; each comes to readyLibrary through        *)
(* cleanPotentials, getDuplicates and GetByID.  readyLibrary is taken      *)
(* apart at the places where it reads or writes s.libraryIndex, the cache   *)
(* file or the source.  The tracks have a song name only, and the user may  *)
(* remove saved tracks while the server runs.                               *)

PlainTracks == {t \in Tracks : t.Album = <<>> /\ t.Artists = <<>>}
PlainLibraries == SeqsUpTo(PlainTracks, MaxTracks)

\* the cache file an earlier run left, when the library was one track whose
\* id is the largest; it expires at time 2
OldFile ==
    [state |-> "ok", expiration |-> 2,
     tracks |-> <<[ID |-> NumIDs, Name |-> <<>>, Album |-> <<>>, Artists |-> <<>>]>>]

InitServer ==
    /\ AuthIdle
    /\ now = 1
    /\ lifetime \in 0..MaxLifetime
    /\ library \in PlainLibraries
    /\ cacheFile \in {MissingFile, OldFile}
    /\ libraryService = NilService
    /\ call = NoCall
    /\ TreeIdle
    /\ KeyIdle
    /\ RunIdle

\* readyLibrary, line 143: a fresh index is used as it is
Enter(h) ==
    /\ libraryService.up
    /\ call = NoCall
    /\ handlers[h].pc = "idle"
    /\ handlers' = [handlers EXCEPT ![h] =
                        IF Alive(libraryService.libraryIndex, now) THEN IdleHandler
                        ELSE [IdleHandler EXCEPT !.pc = "restore"]]
    /\ UNCHANGED <<svcVars, treeVars, keyVars, clean, authVars>>

\* readyLibrary, line 148: s.indexFromCacheFile(), its error only logged
Restore(h) ==
    /\ handlers[h].pc = "restore"
    /\ libraryService' =
          [libraryService EXCEPT !.libraryIndex =
              indexFromCacheFile(libraryService.libraryIndex, lifetime,
                                 cacheFile, now).index]
    /\ handlers' = [handlers EXCEPT ![h].pc = "check"]
    /\ UNCHANGED <<now, lifetime, library, cacheFile, call, treeVars, keyVars, clean, authVars>>

\* readyLibrary, line 151: s.libraryIndex.Alive() once more
Check(h) ==
    /\ handlers[h].pc = "check"
    /\ handlers' = [handlers EXCEPT ![h] =
                        IF Alive(libraryService.libraryIndex, now) THEN IdleHandler
                        ELSE [IdleHandler EXCEPT !.pc = "open"]]
    /\ UNCHANGED <<svcVars, treeVars, keyVars, clean, authVars>>

\* indexFromSpotify, lines 165-170: the local index is created and
\* CurrentUsersTracks gives the first page, or fails
Open(h, ok) ==
    /\ handlers[h].pc = "open"
    /\ handlers' = [handlers EXCEPT ![h] =
                        IF ok
                        THEN [IdleHandler EXCEPT
                                !.pc = "drain",
                                !.index = NewSpotifyLibraryIndex(lifetime, now),
                                !.page = 1,
                                !.pager = PagesOf(library)[1]]
                        ELSE [IdleHandler EXCEPT !.err = "fetch"]]
    /\ UNCHANGED <<svcVars, treeVars, keyVars, clean, authVars>>

\* indexFromSpotify, lines 173-175: the tracks of the page are indexed
IndexPage(h) ==
    /\ handlers[h].pc = "drain"
    /\ handlers' = [handlers EXCEPT
                        ![h].pc = "next",
                        ![h].index = IndexTracks(@, handlers[h].pager),
                        ![h].seen = @ \o handlers[h].pager]
    /\ UNCHANGED <<svcVars, treeVars, keyVars, clean, authVars>>

\* indexFromSpotify, lines 176-187: NextPage fails, gives the next page, or
\* reports ErrNoMorePages, and then the index is made fresh and installed
NextPage(h, ok) ==
    /\ handlers[h].pc = "next"
    /\ IF ~ok
       THEN /\ handlers' = [handlers EXCEPT ![h] = [IdleHandler EXCEPT !.err = "fetch"]]
            /\ UNCHANGED libraryService
       ELSE IF handlers[h].page < Len(PagesOf(library))
       THEN /\ handlers' = [handlers EXCEPT
                               ![h].pc = "drain",
                               ![h].page = @ + 1,
                               ![h].pager = PagesOf(library)[handlers[h].page + 1]]
            /\ UNCHANGED libraryService
       ELSE /\ handlers' = [handlers EXCEPT ![h] =
                               [IdleHandler EXCEPT !.replaced =
                                   DOMAIN libraryService.libraryIndex.tracksByID]]
            /\ libraryService' =
                  [libraryService EXCEPT !.libraryIndex =
                      MakeItFresh(handlers[h].index, now)]
    /\ UNCHANGED <<now, lifetime, library, cacheFile, call, treeVars, keyVars, clean, authVars>>

\* the user removes the i-th track from the library
Unsave(i) ==
    /\ libraryService.up
    /\ call = NoCall
    /\ i \in 1..Len(library)
    /\ library' = SubSeq(library, 1, i - 1) \o SubSeq(library, i + 1, Len(library))
    /\ UNCHANGED <<now, lifetime, cacheFile, libraryService, call, treeVars, keyVars, runVars, authVars>>

NextServer ==
    \/ \E authOk \in BOOLEAN, failAt \in SourceOutcomes(ZeroIndex), writeOk \in BOOLEAN :
          NewLibraryService(authOk, failAt, writeOk)
    \/ Return
    \/ \E h \in Handlers : Enter(h)
    \/ \E h \in Handlers : Restore(h)
    \/ \E h \in Handlers : Check(h)
    \/ \E h \in Handlers, ok \in BOOLEAN : Open(h, ok)
    \/ \E h \in Handlers : IndexPage(h)
    \/ \E h \in Handlers, ok \in BOOLEAN : NextPage(h, ok)
    \/ \E i \in 1..MaxTracks : Unsave(i)
    \/ Tick

SpecServer == InitServer /\ [][NextServer]_vars

(* --------------------------- an index on its own --------------------- *)
(* index := NewSpotifyLibraryIndex(), then the calls indexFromSpotify and  *)
(* indexFromCacheFile make on their local index, IndexTrack and            *)
(* MakeItFresh, with any tracks and in any order, while time passes.  The   *)
(* index is the local index of handler 1.                                   *)

InitIndex ==
    /\ AuthIdle
    /\ now = 1
    /\ lifetime \in 0..MaxLifetime
    /\ library = <<>>
    /\ cacheFile = MissingFile
    /\ libraryService = NilService
    /\ call = NoCall
    /\ handlers = [h \in Handlers |->
                      IF h = 1
                      THEN [IdleHandler EXCEPT
                              !.pc = "index",
                              !.index = NewSpotifyLibraryIndex(lifetime, now)]
                      ELSE IdleHandler]
    /\ clean = NoClean
    /\ TreeIdle
    /\ KeyIdle

\* index.IndexTrack(v.ID, v)
IndexOne(v) ==
    /\ handlers[1].pc = "index"
    /\ Len(handlers[1].index.indexed) < MaxTracks
    /\ handlers' = [handlers EXCEPT ![1].index = IndexTrack(@, v.ID, v)]
    /\ UNCHANGED <<svcVars, treeVars, keyVars, clean, authVars>>

\* index.MakeItFresh()
Refresh ==
    /\ handlers[1].pc = "index"
    /\ handlers' = [handlers EXCEPT ![1].index = MakeItFresh(@, now)]
    /\ UNCHANGED <<svcVars, treeVars, keyVars, clean, authVars>>

NextIndex ==
    \/ \E v \in Tracks : IndexOne(v)
    \/ Refresh
    \/ Tick

SpecIndex == InitIndex /\ [][NextIndex]_vars

(* --------------------------- a run of cleanPotentials ---------------- *)
(* main builds the service and calls cleanPotentials(dryRun); the playlist  *)
(* and the library hold tracks with a song name only.                       *)

Playlists == SeqsUpTo(PlainTracks, MaxPlaylist)

\* a playlist of one track more than a removal request may carry: tracks
\* of different ids and empty names
LongPlaylist ==
    [i \in 1..(BatchLimit + 1) |->
        [ID |-> i, Name |-> <<>>, Album |-> <<>>, Artists |-> <<>>]]

InitClean ==
    /\ AuthIdle
    /\ now = 1
    /\ lifetime \in 0..MaxLifetime
    /\ library \in PlainLibraries
    /\ cacheFile = MissingFile
    /\ libraryService = NilService
    /\ call = NoCall
    /\ handlers = [h \in Handlers |-> IdleHandler]
    /\ \E d \in BOOLEAN, a \in BOOLEAN, p \in Playlists :
          clean = [NoClean EXCEPT !.dryRun = d, !.aggressive = a, !.playlist = p]
    /\ TreeIdle
    /\ KeyIdle

\* cleanPotentials, lines 438-448: GetPlaylist gives the first page or fails
StartClean(ok) ==
    /\ libraryService.up
    /\ call = NoCall
    /\ clean.pc = "none"
    /\ clean' = IF ok THEN [clean EXCEPT !.pc = "page", !.page = 1]
                ELSE [clean EXCEPT !.pc = "done", !.err = "playlist"]
    /\ UNCHANGED <<svcVars, treeVars, keyVars, handlers, authVars>>

\* cleanPotentials, lines 451-456: getDuplicates(pager.Tracks)
ScanPage(failAt) ==
    /\ clean.pc = "page"
    /\ \E found \in {getDuplicates(libraryService.libraryIndex,
                                    PagesOf(clean.playlist)[clean.page],
                                    clean.aggressive,
                                    [lifetime |-> lifetime, file |-> cacheFile,
                                     pages |-> PagesOf(library),
                                     failAt |-> failAt, t |-> now])} :
          /\ libraryService' = [libraryService EXCEPT !.libraryIndex = found.index]
          /\ clean' = IF found.err # ""
                      THEN [clean EXCEPT !.pc = "done", !.err = found.err]
                      ELSE [clean EXCEPT !.pc = "next",
                                         !.duplicates = @ \o found.duplicates]
    /\ UNCHANGED <<now, lifetime, library, cacheFile, call, treeVars, keyVars, handlers, authVars>>

\* cleanPotentials, lines 457-471 and 490: NextPage fails, gives the next
\* page, or reports ErrNoMorePages; then a dry run returns
PlaylistNext(ok) ==
    /\ clean.pc = "next"
    /\ clean' = IF ~ok THEN [clean EXCEPT !.pc = "done", !.err = "page"]
                ELSE IF clean.page < Len(PagesOf(clean.playlist))
                THEN [clean EXCEPT !.pc = "page", !.page = @ + 1]
                ELSE IF Removes(clean.dryRun)
                THEN [clean EXCEPT !.pc = "remove"]
                ELSE [clean EXCEPT !.pc = "done", !.ret = Len(clean.duplicates)]
    /\ UNCHANGED <<svcVars, treeVars, keyVars, handlers, authVars>>

\* cleanPotentials, lines 476-490: one round of the removal loop; ids is
\* the same list in every round.  The rounds recorded are capped.
RemoveBatch(ok) ==
    /\ clean.pc = "remove"
    /\ Len(clean.requests) < MaxRequests
    /\ LET ids == TrackIDs(clean.duplicates)
           toRemove == FirstNIDs(ids, BatchLimit)[1]
           rest == FirstNIDs(ids, BatchLimit)[2]
       IN  clean' =
             IF ~ok
             THEN [clean EXCEPT !.pc = "done", !.err = "remove",
                                !.requests = Append(@, toRemove)]
             ELSE IF Len(rest) > 0
             THEN [clean EXCEPT !.requests = Append(@, toRemove),
                                !.playlist = WithoutIDs(@, toRemove)]
             ELSE [clean EXCEPT !.pc = "done", !.ret = Len(clean.duplicates),
                                !.requests = Append(@, toRemove),
                                !.playlist = WithoutIDs(@, toRemove)]
    /\ UNCHANGED <<svcVars, treeVars, keyVars, handlers, authVars>>

NextClean ==
    \/ \E authOk \in BOOLEAN, failAt \in SourceOutcomes(ZeroIndex), writeOk \in BOOLEAN :
          NewLibraryService(authOk, failAt, writeOk)
    \/ Return
    \/ \E ok \in BOOLEAN : StartClean(ok)
    \/ \E failAt \in FailPoints(PagesOf(library)) : ScanPage(failAt)
    \/ \E ok \in BOOLEAN : PlaylistNext(ok)
    \/ \E ok \in BOOLEAN : RemoveBatch(ok)
    \/ Tick

SpecClean == InitClean /\ [][NextClean]_vars

(* ------------------- cleanPotentials on a long playlist --------------- *)
(* The same run on the playlist of more entries than one removal request   *)
(* may carry, at one instant.                                               *)

InitBatch ==
    /\ AuthIdle
    /\ now = 1
    /\ lifetime \in 0..MaxLifetime
    /\ library \in PlainLibraries
    /\ cacheFile = MissingFile
    /\ libraryService = NilService
    /\ call = NoCall
    /\ handlers = [h \in Handlers |-> IdleHandler]
    /\ \E d \in BOOLEAN, a \in BOOLEAN :
          clean = [NoClean EXCEPT !.dryRun = d, !.aggressive = a,
                                  !.playlist = LongPlaylist]
    /\ TreeIdle
    /\ KeyIdle

NextBatch ==
    \/ \E authOk \in BOOLEAN, failAt \in SourceOutcomes(ZeroIndex), writeOk \in BOOLEAN :
          NewLibraryService(authOk, failAt, writeOk)
    \/ Return
    \/ \E ok \in BOOLEAN : StartClean(ok)
    \/ \E failAt \in FailPoints(PagesOf(library)) : ScanPage(failAt)
    \/ \E ok \in BOOLEAN : PlaylistNext(ok)
    \/ \E ok \in BOOLEAN : RemoveBatch(ok)

SpecBatch == InitBatch /\ [][NextBatch]_vars

(* ========================== authentication ========================== *)
\* config.Spotify.AuthTimeout, in ticks of the clock
AuthTimeout == 2

\* handlers that can wait at clientCh <- &c at one time
MaxBlocked == 1

\* the clients auth.NewClient can make
Clients == {1, 2}

\* the values rand.Intn(10000) gives the session key
SessionKeys == {1, 2}

TimedOutMsg == "Authentication timed out."

\* the places where AuthMe waits inside authMeWithTimeout: the one-off block,
\* the spClient == nil block and the block after a failed CurrentUser
Waits == {"oneoff", "nil", "retry"}

\* where AuthMe goes on after authMeWithTimeout returned nil
AfterWait(pc) ==
    CASE pc = "oneoff" -> "check"    \* spClient is set, the nil block is skipped
      [] pc = "nil"    -> "check"
      [] pc = "retry"  -> "done"

\* case c := <-clientCh written without the assignment
ReceivedDropped(spClient, c) == spClient

\* case c := <-clientCh: spClient = c
Received(spClient, c) == c

\* the deferred authSrv.Shutdown of the one-off server, run when AuthMe returns
Shutdown(a) == IF a.runserver THEN a.listening ELSE FALSE

\* AuthMe returns: nil at "done", the error at "failed"
Returned(a, pc, err) ==
    [a EXCEPT !.pc = pc, !.err = err,
              !.listening = IF pc \in {"done", "failed"} THEN Shutdown(a) ELSE @]

InitAuth ==
    /\ \E r \in BOOLEAN : auth = [NoAuth EXCEPT !.runserver = r]
    /\ now = 0
    /\ lifetime = 0
    /\ library = <<>>
    /\ cacheFile = MissingFile
    /\ libraryService = NilService
    /\ call = NoCall
    /\ RunIdle
    /\ TreeIdle
    /\ KeyIdle

\* authMeWithTimeout up to its select: a new session key, a new timer
Waiting(a, pc, k) == [a EXCEPT !.pc = pc, !.sessionKey = k, !.elapsed = 0]

\* AuthMe up to its first wait.  Without -runserver it starts the one-off
\* server and calls authMeWithTimeout; with it, it starts no server (the
\* server of main is started only after NewLibraryService has returned) and,
\* spClient being nil, calls authMeWithTimeout in the second block.
StartAuth ==
    /\ auth.pc = "init"
    /\ \E k \in SessionKeys :
          auth' = IF ~auth.runserver
                  THEN Waiting([auth EXCEPT !.listening = TRUE], "oneoff", k)
                  ELSE IF auth.spClient = NilClient
                  THEN Waiting(auth, "nil", k)
                  ELSE [auth EXCEPT !.pc = "check"]
    /\ UNCHANGED <<now, lifetime, library, cacheFile, libraryService, call, treeVars, keyVars, runVars>>

\* the clock moves while authMeWithTimeout waits; the timer goroutine sends
\* on timeoutCh when AuthTimeout has passed
AuthTick ==
    /\ auth.pc \in Waits
    /\ auth.elapsed < AuthTimeout
    /\ auth.blocked = <<>>
    /\ auth' = [auth EXCEPT !.elapsed = @ + 1]
    /\ UNCHANGED <<now, lifetime, library, cacheFile, libraryService, call, treeVars, keyVars, runVars>>

\* HandleAuthCallback: a request to /callback/spotify reaches a listening
\* server.  When the token cannot be retrieved (the request's state is not
\* the session key, or the exchange fails) it answers 404 and sends nothing.  Otherwise it sends the client on clientCh: if authMeWithTimeout
\* is in its select the client is received, else the handler waits on the send.
HandleAuthCallback(c, state, exchangeOk) ==
    /\ auth.listening
    /\ IF state # auth.sessionKey \/ ~exchangeOk
       THEN UNCHANGED auth
       ELSE IF auth.pc \in Waits
       THEN /\ auth.blocked = <<>>
            /\ auth' = [Returned(auth, AfterWait(auth.pc), "") EXCEPT
                          !.spClient = Received(auth.spClient, c),
                          !.delivered = c]
       ELSE /\ auth.pc = "check"
            /\ Len(auth.blocked) < MaxBlocked
            /\ auth' = [auth EXCEPT !.blocked = Append(@, c)]
    /\ UNCHANGED <<now, lifetime, library, cacheFile, libraryService, call, treeVars, keyVars, runVars>>

\* authMeWithTimeout enters its select while a handler already waits on its
\* send: the client is received at once
TakeBlocked ==
    /\ auth.pc \in Waits
    /\ auth.blocked # <<>>
    /\ auth' = [Returned(auth, AfterWait(auth.pc), "") EXCEPT
                  !.spClient = Received(auth.spClient, Head(auth.blocked)),
                  !.delivered = Head(auth.blocked),
                  !.blocked = Tail(@)]
    /\ UNCHANGED <<now, lifetime, library, cacheFile, libraryService, call, treeVars, keyVars, runVars>>

\* case <-timeoutCh: the error is returned and AuthMe passes it on
TimedOut ==
    /\ auth.pc \in Waits
    /\ auth.elapsed = AuthTimeout
    /\ auth.blocked = <<>>
    /\ auth' = Returned(auth, "failed", TimedOutMsg)
    /\ UNCHANGED <<now, lifetime, library, cacheFile, libraryService, call, treeVars, keyVars, runVars>>

\* spClient.CurrentUser(): on an error authMeWithTimeout is called once more
CurrentUser(ok) ==
    /\ auth.pc = "check"
    /\ \E k \in SessionKeys :
          auth' = IF ok THEN Returned(auth, "done", "")
                  ELSE Waiting(auth, "retry", k)
    /\ UNCHANGED <<now, lifetime, library, cacheFile, libraryService, call, treeVars, keyVars, runVars>>

NextAuth ==
    \/ StartAuth
    \/ AuthTick
    \/ \E c \in Clients, state \in SessionKeys, exchangeOk \in BOOLEAN :
          HandleAuthCallback(c, state, exchangeOk)
    \/ TakeBlocked
    \/ TimedOut
    \/ \E ok \in BOOLEAN : CurrentUser(ok)

SpecAuth == InitAuth /\ [][NextAuth]_vars

(* =============================== claims =============================== *)
Added == {hist[i] : i \in 1..Len(hist)}

\* the strings Contains is asked about: those that can be added and longer ones
Asked == SeqsUpTo(Runes, MaxLen + 1)

\* C1: every string that was given to Add is contained afterwards, whatever
\* else was added before or after it.
C1_AddedIsContained == \A K \in Added : Contains(tree, K)

\* C1 witness: a string added first, then a branching and an overlapping one.
C1_Witness ==
    /\ Len(hist) = 3
    /\ hist[1] = <<1, 2>>
    /\ hist[2] = <<1, 1>>
    /\ hist[3] = <<1>>
    /\ Contains(tree, hist[1])

\* C2: a non-empty string is contained exactly when it is a prefix of a string
\* added before (itself included); none is contained in a tree nothing was
\* added to.
C2_ContainsIffPrefixOfAdded ==
    \A K \in Asked \ {<<>>} :
        Contains(tree, K) <=> \E s \in Added : IsPrefix(K, s)

\* C2 witness: a proper prefix of an added string that was not added itself is
\* contained, a string branching off it is not.
C2_Witness ==
    /\ Added = {<<1, 2>>, <<2>>}
    /\ Contains(tree, <<1>>)
    /\ ~Contains(tree, <<1, 1>>)
    /\ ~Contains(tree, <<2, 2>>)

\* C3: the empty string is contained in every reachable tree, the one nothing
\* was added to included.
C3_ContainsEmpty == Contains(tree, <<>>)

\* C3 witness: a tree with nodes below the root, asked for the empty string.
C3_Witness ==
    /\ Len(hist) > 0
    /\ Len(tree.nodes) > 1
    /\ Contains(tree, <<>>)

\* C4: adding a string a second time leaves the tree as the first Add left it:
\* the same nodes with the same children.
C4_AddIdempotent ==
    \A K \in Strings : Add(Add(tree, K), K) = Add(tree, K)

\* C4 witness: the same non-empty string added twice in a row to a tree that
\* holds another string; the tree is the one the first of the two Adds gave.
C4_Witness ==
    /\ Len(hist) = 3
    /\ hist[2] = <<1, 2>>
    /\ hist[3] = <<1, 2>>
    /\ hist[1] = <<1, 1>>
    /\ tree = Add(Add(NewPrefixTree, hist[1]), hist[2])

(* ---- trackIndexString ---- *)
\* the lists that hold the elements of l, each as often as l does
Rearranged(l) ==
    {[i \in 1..Len(l) |-> l[f[i]]] :
        f \in {g \in [1..Len(l) -> 1..Len(l)] :
                  \A i, j \in 1..Len(l) : g[i] = g[j] => i = j}}

\* a is b or comes before b in the lexicographic order of the runes
LexLeq(a, b) ==
    \/ IsPrefix(a, b)
    \/ \E k \in 1..Len(a) :
          /\ k <= Len(b)
          /\ SubSeq(a, 1, k - 1) = SubSeq(b, 1, k - 1)
          /\ a[k] < b[k]

Ascending(l) == \A i, j \in 1..Len(l) : i < j => LexLeq(l[i], l[j])

\* C5: the key does not depend on the order of the artist list: every
\* permutation of the artists gives the key the call returned.
C5_KeyIgnoresArtistOrder ==
    keyCall.done =>
        \A P \in Rearranged(keyCall.artists) :
            trackIndexString(keyCall.name, keyCall.album, P) = keyCall.out

\* C5 witness: a call with two artists given in descending order.
C5_Witness ==
    /\ keyCall.done
    /\ keyCall.name = <<1, 2>>
    /\ keyCall.album = <<2>>
    /\ keyCall.artists = << <<2>>, <<1>> >>
    /\ keyCall.out = <<1, 2, 2, 1, 2>>

\* C6: the key is the song name, then the album name, then the artist names in
\* ascending lexicographic order, nothing in between; so another (name, album)
\* pair with the same concatenation gives the same key.
C6_KeyIsConcatenation ==
    keyCall.done =>
        /\ \E P \in Rearranged(keyCall.artists) :
              /\ Ascending(P)
              /\ keyCall.out = keyCall.name \o keyCall.album \o WriteStrings(P)
        /\ \A n \in Names, a \in Names :
              n \o a = keyCall.name \o keyCall.album =>
                  trackIndexString(n, a, keyCall.artists) = keyCall.out

\* C6 witness: the key of name "AB", album "C" is also that of name "A", album
\* "BC" (runes A = 1, B = 2, C = 1), the artists written in ascending order.
C6_Witness ==
    /\ keyCall.done
    /\ keyCall.name = <<1, 2>>
    /\ keyCall.album = <<1>>
    /\ keyCall.artists = << <<2>>, <<>> >>
    /\ keyCall.out = <<1, 2, 1, 2>>
    /\ trackIndexString(<<1>>, <<2, 1>>, keyCall.artists) = keyCall.out

(* ---- library index and service ---- *)
\* the service's index and the tracks IndexTrack was given since it was created
TheIndex == libraryService.libraryIndex
Indexed  == TheIndex.indexed

KeyOf(v) == trackIndexString(v.Name, v.Album, v.Artists)

\* the last track IndexTrack was given under id k
LastIndexed(k) ==
    Indexed[CHOOSE i \in 1..Len(Indexed) :
                /\ Indexed[i].ID = k
                /\ \A j \in 1..Len(Indexed) : Indexed[j].ID = k => j <= i]

\* C7: the index holds one record per id, the one IndexTrack was given last,
\* and GetByID returns it; the trie still contains the key of every track
\* IndexTrack was given, those overwritten since included.
C7_Upsert ==
    /\ \A i \in 1..Len(Indexed) :
          /\ TheIndex.tracksByID[Indexed[i].ID] = LastIndexed(Indexed[i].ID)
          /\ Contains(TheIndex.trackSearchTree, KeyOf(Indexed[i]))
    /\ (call.op = "GetByID" /\ call.err = "") =>
          call.ret = IF \E i \in 1..Len(Indexed) : Indexed[i].ID = call.id
                     THEN {LastIndexed(call.id)}
                     ELSE {}

\* C7 witness: IndexTrack was given two tracks of different keys under one id;
\* GetByID returned the second, and the trie contains the key of the first,
\* which is a prefix of no key of a record of the map.
C7_Witness ==
    /\ call.op = "GetByID"
    /\ call.err = ""
    /\ Len(Indexed) = 2
    /\ Indexed[1].ID = call.id
    /\ Indexed[2].ID = call.id
    /\ call.ret = {Indexed[2]}
    /\ ~IsPrefix(KeyOf(Indexed[1]), KeyOf(Indexed[2]))
    /\ Contains(TheIndex.trackSearchTree, KeyOf(Indexed[1]))

\* C8: in every state of the service, each record of the index's map has its
\* key in the index's trie.
C8_MapKeysInTrie ==
    \A k \in DOMAIN TheIndex.tracksByID :
        Contains(TheIndex.trackSearchTree, KeyOf(TheIndex.tracksByID[k]))

\* C8 witness: a fresh index restored from the cache file by a new run, two
\* records in its map, fed in the file's order and not the pager's.
C8_Witness ==
    /\ libraryService.up
    /\ call.op = "NewLibraryService"
    /\ cacheFile.state = "ok"
    /\ Indexed = cacheFile.tracks
    /\ Indexed # library
    /\ Cardinality(DOMAIN TheIndex.tracksByID) = 2
    /\ TheIndex.evictionTime = cacheFile.expiration
    /\ Alive(TheIndex, now)

\* the call in progress is a composite lookup that returned without error
Looked == call.op = "GetBySongAlbumArtistNames" /\ call.err = ""

QueryKey == trackIndexString(call.songName, call.albumName, call.artistNames)

\* some IndexTrack call on the service's index derived exactly the query's key
QueryKeyInserted == \E i \in 1..Len(Indexed) : KeyOf(Indexed[i]) = QueryKey

Elements(l) == {l[i] : i \in 1..Len(l)}

\* C9: a composite lookup whose key no IndexTrack call on the index derived
\* returns nothing.
C9_EmptyUnlessKeyInserted ==
    (Looked /\ ~QueryKeyInserted) => call.ret = {}

\* C10: a composite lookup whose key was inserted returns all and only the
\* records of the map with the query's song name, album name and set of artist
\* names.
C10_ExactMatches ==
    (Looked /\ QueryKeyInserted) =>
        call.ret = {v \in {TheIndex.tracksByID[k] : k \in DOMAIN TheIndex.tracksByID} :
                       /\ v.Name = call.songName
                       /\ v.Album = call.albumName
                       /\ Elements(v.Artists) = Elements(call.artistNames)}

\* the records of the map of the service's index
Records == {TheIndex.tracksByID[k] : k \in DOMAIN TheIndex.tracksByID}

\* C11: every record a composite lookup returns is a record of the map with
\* the query's song name and the query's album name; so a query whose key is in
\* the trie only because another split of the same characters was indexed
\* returns nothing.
C11_NoFalsePositive ==
    Looked =>
        call.ret \subseteq {v \in Records : /\ v.Name = call.songName
                                            /\ v.Album = call.albumName}

\* C11 witness: a record of the map has the query's key, the same artists and
\* another split of song and album name, no record has the query's song and
\* album name, and the lookup returned nothing.
C11_Witness ==
    /\ Looked
    /\ Contains(TheIndex.trackSearchTree, QueryKey)
    /\ \E v \in Records :
          /\ KeyOf(v) = QueryKey
          /\ v.Artists = call.artistNames
          /\ v.Name # call.songName
          /\ v.Name \o v.Album = call.songName \o call.albumName
    /\ ~\E v \in Records : v.Name = call.songName /\ v.Album = call.albumName
    /\ call.ret = {}

\* C12: a composite lookup returns every record of the map that has the
\* query's song name and album name and the query's artists in any order.
C12_ArtistOrderIrrelevant ==
    Looked =>
        \A v \in Records :
            (/\ v.Name = call.songName
             /\ v.Album = call.albumName
             /\ v.Artists \in Rearranged(call.artistNames)) => v \in call.ret

\* C12 witness: two records under different ids with one song and album name
\* and two artists in opposite orders; the lookup returned both.
C12_Witness ==
    /\ Looked
    /\ Len(call.artistNames) = 2
    /\ call.artistNames[1] # call.artistNames[2]
    /\ \E v, w \in Records :
          /\ v.ID # w.ID
          /\ v.Name = call.songName /\ w.Name = call.songName
          /\ v.Album = call.albumName /\ w.Album = call.albumName
          /\ v.Artists = call.artistNames
          /\ w.Artists = <<call.artistNames[2], call.artistNames[1]>>
          /\ call.ret = {v, w}

\* the call in progress went through readyLibrary
CalledReady ==
    \/ call.op \in {"GetByID", "GetBySongAlbumArtistNames"}
    \/ call.op = "NewLibraryService" /\ call.err # "auth"

\* the call in progress drained the source and installed the index it built
Rebuilt == CalledReady /\ call.fetches > 0 /\ call.err # "fetch"

\* C13: the index is alive at exactly the instants before its evictionTime; a
\* call finds it stale, and goes to the cache file, exactly when the clock has
\* reached the evictionTime it had; an index just made fresh with a lifetime
\* above 0 is alive; and the evictionTime a call leaves is the one it found,
\* unless it rebuilt (now + lifetime) or restored a snapshot (its expiration).
C13_AliveIffBeforeEviction ==
    /\ \A t \in 0..(MaxNow + MaxLifetime + 1) :
          Alive(TheIndex, t) <=> t < TheIndex.evictionTime
    /\ CalledReady => (call.restored <=> ~(now < call.before))
    /\ (Rebuilt /\ libraryService.up) =>
          /\ TheIndex.evictionTime = now + lifetime
          /\ lifetime > 0 => Alive(TheIndex, now)
    /\ (CalledReady /\ libraryService.up /\ ~Rebuilt) =>
          TheIndex.evictionTime =
              IF call.restored /\ call.cached \in {"fresh", "stale"}
              THEN cacheFile.expiration
              ELSE call.before

\* C13 witness: an index with a lifetime above 0 is asked at the very instant
\* of its evictionTime, and the call goes to the cache file.
C13_Witness ==
    /\ call.op = "GetByID"
    /\ lifetime > 0
    /\ call.before = now
    /\ call.restored

\* C14: with a lifetime of 0 an index just made fresh is stale, and every call
\* that goes through readyLibrary tries the cache file and then the source.
C14_ZeroLifetimeRebuilds ==
    lifetime = 0 =>
        /\ (Rebuilt /\ libraryService.up) => ~Alive(TheIndex, now)
        /\ CalledReady => (call.restored /\ call.fetches >= 1)

\* C14 witness: with a lifetime of 0 a read at the instant the index was made
\* fresh finds the snapshot of that index stale and goes to the source.
C14_Witness ==
    /\ lifetime = 0
    /\ call.op \in {"GetByID", "GetBySongAlbumArtistNames"}
    /\ call.before = now
    /\ call.cached = "stale"
    /\ call.restored
    /\ call.fetches >= 1

\* the index indexFromCacheFile installs from the file persistLibrary writes
\* for index i
RoundTrip(i) ==
    indexFromCacheFile(ZeroIndex, lifetime,
                       persistLibrary(i, cacheFile, TRUE).file, now)

\* C15: persisting the service's index and restoring the written file gives
\* an index with the same record under every id, no other id, and the
\* evictionTime that was persisted; and an index a run restored from the file
\* of an earlier run holds, under every id, the record the source has for it.
C15_SnapshotRoundTrip ==
    /\ libraryService.up =>
          /\ persistLibrary(TheIndex, cacheFile, TRUE).file.expiration
                = TheIndex.evictionTime
          /\ RoundTrip(TheIndex).err = ""
          /\ RoundTrip(TheIndex).index.tracksByID = TheIndex.tracksByID
          /\ RoundTrip(TheIndex).index.evictionTime = TheIndex.evictionTime
          /\ Alive(RoundTrip(TheIndex).index, now) <=> Alive(TheIndex, now)
    /\ (CalledReady /\ libraryService.up /\ call.restored /\ call.fetches = 0) =>
          /\ TheIndex.tracksByID =
                IndexTracks(NewSpotifyLibraryIndex(lifetime, now), library).tracksByID
          /\ TheIndex.evictionTime = cacheFile.expiration

\* C15 witness: a run restored, without going to the source, the snapshot an
\* earlier run wrote of an index of two records.
C15_Witness ==
    /\ call.op = "NewLibraryService"
    /\ libraryService.up
    /\ call.restored
    /\ call.cached = "fresh"
    /\ call.fetches = 0
    /\ Cardinality(DOMAIN TheIndex.tracksByID) = 2
    /\ Len(library) = 2

\* the call in progress is a read of the service
Read == call.op \in {"GetByID", "GetBySongAlbumArtistNames"}

\* C16: a call that finds the index stale tries the cache file before the
\* source; when the file is a snapshot whose expiration is still ahead, the
\* source is not contacted, the call does not fail for the index, and the
\* index is alive and holds exactly the snapshot's records, each fed through
\* IndexTrack.
C16_FreshSnapshotSparesSource ==
    /\ (CalledReady /\ call.fetches > 0) => call.restored
    /\ (CalledReady /\ call.restored /\ call.cached = "fresh") =>
          /\ call.fetches = 0
          /\ call.err \notin {"open", "unmarshal", "fetch"}
          /\ Read => (call.err = "" /\ libraryService.up)
          /\ libraryService.up =>
                /\ Alive(TheIndex, now)
                /\ TheIndex.evictionTime = cacheFile.expiration
                /\ Indexed = cacheFile.tracks
                /\ Records = Elements(cacheFile.tracks)

\* C16 witness: a read found the index stale and a snapshot with records and
\* an expiration still ahead, and made no call to the source.
C16_Witness ==
    /\ Read
    /\ call.before <= now
    /\ call.restored
    /\ call.cached = "fresh"
    /\ call.fetches = 0
    /\ cacheFile.tracks # <<>>
    /\ Records = Elements(cacheFile.tracks)

C18_SnapshotAfterEveryRebuild ==
    (Rebuilt /\ libraryService.up) =>
        /\ cacheFile.state = "ok"
        /\ cacheFile.expiration = TheIndex.evictionTime
        /\ Elements(cacheFile.tracks) = Records

\* C19: a construction that drained the source without error succeeds and
\* leaves a service with the index built, whether or not the cache file could
\* be written.
C19_PersistBestEffort ==
    (call.op = "NewLibraryService" /\ call.fetches > 0
        /\ call.err \notin {"auth", "fetch"}) =>
        /\ call.err = ""
        /\ libraryService.up
        /\ TheIndex.tracksByID =
              IndexTracks(NewSpotifyLibraryIndex(lifetime, now), library).tracksByID

\* C20: a call in which the source fails returns the error and no result,
\* leaves the cache file as it was, and leaves as the service's index the one
\* it had or the one restored from the cache file, never the index under
\* construction, and never an alive one.
C20_FailedDrainDiscarded ==
    [][call'.err = "fetch" =>
          /\ call'.ret = {}
          /\ ~call'.wrote
          /\ cacheFile' = cacheFile
          /\ ~Alive(libraryService'.libraryIndex, now')
          /\ libraryService'.libraryIndex \in
                {libraryService.libraryIndex,
                 indexFromCacheFile(libraryService.libraryIndex, lifetime,
                                    cacheFile, now).index}
          /\ call'.op = "NewLibraryService" => ~libraryService'.up]_vars

\* C20 witness: the source failed at the second page of a read's drain, after
\* the tracks of the first page were indexed.
C20_Witness ==
    /\ Read
    /\ call.err = "fetch"
    /\ call.fetches = 2
    /\ Len(library) = 2
    /\ Cardinality(Records) = 2

\* C21: a read in which the source fails leaves the service's index as it
\* was before the read: its map, its trie and its evictionTime.
C21_FailedRebuildKeepsIndex ==
    [][(call'.err = "fetch" /\ call'.op \in {"GetByID", "GetBySongAlbumArtistNames"}) =>
          /\ libraryService'.libraryIndex.tracksByID
                = libraryService.libraryIndex.tracksByID
          /\ libraryService'.libraryIndex.trackSearchTree
                = libraryService.libraryIndex.trackSearchTree
          /\ libraryService'.libraryIndex.evictionTime
                = libraryService.libraryIndex.evictionTime]_vars

(* ---- rendering a prefix tree ---- *)
\* the nodes of the tree other than its root
Inner == 2..Len(tree.nodes)
Leaves == {n \in Inner : DOMAIN tree.nodes[n].children = {}}

\* the number of edges from the root to node n
RECURSIVE Depth(_)
Depth(n) ==
    IF n = tree.Root THEN 0
    ELSE LET m == CHOOSE x \in 1..Len(tree.nodes) :
                     \E c \in DOMAIN tree.nodes[x].children :
                        tree.nodes[x].children[c] = n
         IN  1 + Depth(m)

\* the added strings that are not empty and no proper prefix of another
Maximal == {x \in Added : x # <<>> /\ ~\E y \in Added : y # x /\ IsPrefix(x, y)}

\* C25: Words() returns one string per leaf and no string twice, and the set
\* of the strings is the set of the added non-empty strings that are no
\* proper prefix of another added string; nothing for the tree without Adds.
C25_WordsAreLeafPaths ==
    shown.op = "Words" =>
        /\ Len(shown.out) = Cardinality(Leaves)
        /\ Cardinality(Elements(shown.out)) = Len(shown.out)
        /\ Elements(shown.out) = Maximal
        /\ hist = <<>> => shown.out = <<>>

\* C25 witness: Words() of a tree with a node of two children below the
\* root returned the two strings, which share their first symbol.
C25_Witness ==
    /\ shown.op = "Words"
    /\ Len(shown.out) = 2
    /\ shown.out[1] # shown.out[2]
    /\ shown.out[1][1] = shown.out[2][1]
    /\ Elements(shown.out) = Added

\* C26: in what String() writes, no symbol of a deeper node comes before a
\* symbol of a node less deep.
C26_StringLevelOrdered ==
    shown.op = "String" =>
        \A i, j \in 1..Len(shown.nodes) :
            i < j => Depth(shown.nodes[i]) <= Depth(shown.nodes[j])

\* s with a comma after each symbol
RECURSIVE Commas(_)
Commas(x) == IF x = <<>> THEN <<>> ELSE <<Head(x), Comma>> \o Commas(Tail(x))

\* C27: String() of a tree built by one Add of s is the symbols of s in
\* order, each followed by a comma; String() of the tree without Adds is empty.
C27_StringOfOneWord ==
    shown.op = "String" =>
        /\ Len(hist) = 1 => shown.out = Commas(hist[1])
        /\ hist = <<>> => shown.out = <<>>

\* C27 witness: String() of a tree built by one Add of a string of three
\* symbols.
C27_Witness ==
    /\ shown.op = "String"
    /\ Len(hist) = 1
    /\ Len(hist[1]) = 3
    /\ Len(shown.out) = 6

(* ---- server mode ---- *)
\* handler h is inside readyLibrary, past the first test of freshness
Rebuilding(h) == handlers[h].pc \in {"restore", "check", "open", "drain", "next"}

\* C22: no two handlers are rebuilding the index of the service at once.
C22_OneRebuildAtATime ==
    \A h1, h2 \in Handlers : (Rebuilding(h1) /\ Rebuilding(h2)) => h1 = h2

\* the last of the tracks l whose id is k
LastOf(l, k) ==
    l[CHOOSE i \in 1..Len(l) :
          l[i].ID = k /\ \A j \in 1..Len(l) : l[j].ID = k => j <= i]

\* handler h ends a drain without error in this step: NextPage reported
\* ErrNoMorePages
Installs(h) ==
    /\ handlers[h].pc = "next"
    /\ handlers'[h].pc = "idle"
    /\ handlers'[h].err = ""

\* C23: when a drain ends without error, the source has no page beyond those
\* the handler indexed, and the index of the service is a new one: it was
\* given the tracks of the pages in the order served and nothing else, its
\* ids are theirs, each id holds the last track served under it, and it was
\* made fresh at the end and not before.
C23_RebuildReplacesIndex ==
    [][\A h \in Handlers :
         Installs(h) =>
            LET seen == handlers[h].seen
                new  == libraryService'.libraryIndex
            IN  /\ handlers[h].page >= Len(PagesOf(library))
                /\ new.indexed = seen
                /\ DOMAIN new.tracksByID = {seen[i].ID : i \in 1..Len(seen)}
                /\ \A k \in DOMAIN new.tracksByID :
                      new.tracksByID[k] = LastOf(seen, k)
                /\ handlers[h].index.evictionTime <= now
                /\ new.evictionTime = now + lifetime]_vars

\* C23 witness: a handler's drain of two pages has replaced an index that
\* held an id the source no longer has; the two tracks served have one id and
\* different names, and the id holds the second.
C23_Witness ==
    \E h \in Handlers :
        /\ handlers[h].pc = "idle"
        /\ ~(handlers[h].replaced \subseteq DOMAIN TheIndex.tracksByID)
        /\ Len(Indexed) = 2
        /\ Indexed[1].ID = Indexed[2].ID
        /\ Indexed[1] # Indexed[2]
        /\ TheIndex.tracksByID[Indexed[2].ID] = Indexed[2]
        /\ DOMAIN TheIndex.tracksByID = {Indexed[2].ID}
        /\ TheIndex.evictionTime = now + lifetime

C29_IndexTrackRefreshes ==
    [][\A h \in Handlers :
         (handlers[h].pc = "drain" /\ handlers'[h].pc = "next"
            /\ handlers[h].pager # <<>>) =>
               handlers'[h].index.evictionTime = now' + handlers'[h].index.lifetime]_vars

(* ---- an index on its own ---- *)
\* the keys of the tracks and their prefixes: Contains is false of any other
\* string
KeyPrefixes ==
    UNION {{SubSeq(KeyOf(v), 1, n) : n \in 0..Len(KeyOf(v))} : v \in Tracks}

\* C30: no step of an index, be it IndexTrack (also for an id the map has),
\* MakeItFresh or the passing of time that makes it stale, takes an id from
\* the map or makes Contains false of a string it was true of.
C30_NothingRemoved ==
    [][LET old == handlers[1].index
           new == handlers'[1].index
       IN  /\ DOMAIN old.tracksByID \subseteq DOMAIN new.tracksByID
           /\ \A x \in KeyPrefixes :
                 Contains(old.trackSearchTree, x) => Contains(new.trackSearchTree, x)]_vars

\* C30 witness: an index that was made fresh and has become stale since; it
\* was given two tracks under one id whose keys are no prefix of each other,
\* the id is in the map and the trie contains both keys.
C30_Witness ==
    LET i == handlers[1].index
    IN  /\ handlers[1].pc = "index"
        /\ Len(i.indexed) = 2
        /\ i.indexed[1].ID = i.indexed[2].ID
        /\ ~IsPrefix(KeyOf(i.indexed[1]), KeyOf(i.indexed[2]))
        /\ ~IsPrefix(KeyOf(i.indexed[2]), KeyOf(i.indexed[1]))
        /\ i.evictionTime > 1
        /\ ~Alive(i, now)
        /\ DOMAIN i.tracksByID = {i.indexed[1].ID}
        /\ Contains(i.trackSearchTree, KeyOf(i.indexed[1]))
        /\ Contains(i.trackSearchTree, KeyOf(i.indexed[2]))

(* ---- a run of cleanPotentials ---- *)
\* C24: a dry run makes no RemoveTracksFromPlaylist request at any point, and
\* when it returns without error it returns the number of duplicates it found,
\* all of them still in the playlist.
C24_DryRunRemovesNothing ==
    clean.dryRun =>
        /\ clean.requests = <<>>
        /\ (clean.pc = "done" /\ clean.err = "") =>
              /\ clean.ret = Len(clean.duplicates)
              /\ \A i \in 1..Len(clean.duplicates) :
                    clean.duplicates[i] \in Elements(clean.playlist)

\* C24 witness: a dry run over a playlist of two pages has returned 2, the
\* two tracks of the playlist being duplicates, and made no request.
C24_Witness ==
    /\ clean.dryRun
    /\ clean.pc = "done"
    /\ clean.err = ""
    /\ clean.page = 2
    /\ clean.ret = 2
    /\ clean.duplicates = clean.playlist
    /\ clean.requests = <<>>

(* ---- the empty string ---- *)
\* C31: an Add of the empty string leaves the nodes of the tree, the result
\* of Contains for every string, and what Words() and String() may return as
\* they were.
C31_AddEmptyChangesNothing ==
    [][hist' = Append(hist, <<>>) =>
          /\ tree'.nodes = tree.nodes
          /\ \A x \in WordStrings : Contains(tree', x) = Contains(tree, x)
          /\ Words(tree') = Words(tree)
          /\ String(tree') = String(tree)]_vars

\* C31 witness: the empty string was added to a tree that holds a string of
\* two symbols or more, and Words() returned that string alone.
C31_Witness ==
    /\ Len(hist) = 2
    /\ Len(hist[1]) >= 2
    /\ hist[2] = <<>>
    /\ shown.op = "Words"
    /\ shown.out = <<hist[1]>>

(* ---- reads of a fresh index ---- *)
\* C32: a read that finds the index alive does not try the cache file, makes
\* no call to the source, returns no error, and leaves the cache file and the
\* index as they were; and the passing of time, which may make the index
\* stale, changes neither the index nor the cache file.
C32_FreshReadHasNoEffect ==
    [][/\ (call'.op \in {"GetByID", "GetBySongAlbumArtistNames"}
            /\ call.op = "none"
            /\ Alive(libraryService.libraryIndex, now)) =>
              /\ ~call'.restored
              /\ call'.fetches = 0
              /\ call'.err = ""
              /\ ~call'.wrote
              /\ cacheFile' = cacheFile
              /\ libraryService' = libraryService
       /\ now' # now =>
              /\ libraryService' = libraryService
              /\ cacheFile' = cacheFile]_vars

\* C32 witness: a read by id of an index that is alive returned a record
\* without a look at the cache file or the source.
C32_Witness ==
    /\ call.op = "GetByID"
    /\ call.err = ""
    /\ Alive(TheIndex, now)
    /\ now < call.before
    /\ ~call.restored
    /\ call.fetches = 0
    /\ call.ret # {}

Unsent(c) ==
    Elements(TrackIDs(c.duplicates)) \
        UNION {Elements(c.requests[i]) : i \in 1..Len(c.requests)}

\* C34: every round of the removal loop that succeeds and does not end the
\* loop leaves fewer ids unsent than there were, so that the loop ends; and
\* when a run that is not dry returns without error, no id of a duplicate is
\* unsent.
C34_RemovalTerminates ==
    [][/\ (clean.pc = "remove" /\ clean'.pc = "remove") =>
              Cardinality(Unsent(clean')) < Cardinality(Unsent(clean))
       /\ (clean'.pc = "done" /\ clean'.err = "" /\ ~clean'.dryRun) =>
              Unsent(clean') = {}]_vars

Min(a, b) == IF a <= b THEN a ELSE b

\* C35: no removal request carries more than BatchLimit ids; and for the ids
\* of the duplicates and every n up to one more than their number,
\* FirstNIDs gives two lists that joined are the ids, the first of min(n,
\* len(ids)) elements.
C35_BatchesOfAtMostLimit ==
    /\ \A i \in 1..Len(clean.requests) : Len(clean.requests[i]) <= BatchLimit
    /\ LET ids == TrackIDs(clean.duplicates)
       IN  \A n \in 0..(Len(ids) + 1) :
              /\ FirstNIDs(ids, n)[1] \o FirstNIDs(ids, n)[2] = ids
              /\ Len(FirstNIDs(ids, n)[1]) = Min(n, Len(ids))

\* C35 witness: of more duplicates than BatchLimit a request carried the
\* first BatchLimit ids.
C35_Witness ==
    /\ Len(clean.duplicates) = BatchLimit + 1
    /\ Len(clean.requests) >= 1
    /\ Len(clean.requests[1]) = BatchLimit
    /\ clean.requests[1] = SubSeq(TrackIDs(clean.duplicates), 1, BatchLimit)

\* C36: in server mode (runserver true) the /callback/spotify handler is
\* already served whenever the startup authentication waits on clientCh, so
\* that the wait can end with a client instead of the timeout.
C36_CallbackServedAtStartup ==
    (auth.runserver /\ auth.pc \in Waits) => auth.listening

\* C37: authMeWithTimeout always returns within AuthTimeout.  A step that
\* leaves the select either returns nil with spClient set to the client that
\* was sent on clientCh, or returns "Authentication timed out." with spClient
\* as it was, no client having been sent and the whole timeout having passed;
\* the wait never lasts longer than AuthTimeout, and once AuthTimeout has
\* passed the next step returns and one is possible.
C37_AuthReturnsInTime ==
    [][/\ (auth.pc \in Waits /\ auth'.pc \notin Waits) =>
            \/ /\ auth'.err = ""
               /\ auth'.delivered \in Clients
               /\ auth'.spClient = auth'.delivered
               /\ auth.elapsed <= AuthTimeout
            \/ /\ auth'.err = TimedOutMsg
               /\ auth'.pc = "failed"
               /\ auth'.spClient = auth.spClient
               /\ auth.blocked = <<>>
               /\ auth.elapsed = AuthTimeout
       /\ auth'.pc \in Waits => auth'.elapsed <= AuthTimeout
       /\ (auth.pc \in Waits /\ auth.elapsed = AuthTimeout) =>
            /\ auth'.pc \notin Waits
            /\ ENABLED (TimedOut \/ TakeBlocked)]_vars

\* C37 witness: the first wait received client 1, CurrentUser failed, and the
\* second wait timed out, leaving spClient at client 1.
C37_Witness ==
    /\ auth.pc = "failed"
    /\ auth.err = TimedOutMsg
    /\ auth.delivered = 1
    /\ auth.spClient = 1
    /\ auth.elapsed = AuthTimeout

\* an index built by NewSpotifyLibraryIndex has a tree; the zero value has none
Initialized(index) == index.trackSearchTree # NilTree

\* C38: no lookup runs against an uninitialized index.  The index of a
\* service that was returned by NewLibraryService, and the index a lookup
\* reads after readyLibrary returned nil, was built by NewSpotifyLibraryIndex
\* and is never the zero value; GetByID of an id that is not in it returns
\* the nil record with a nil error, and a lookup returns an error only when
\* it had to go to the source.
C38_LookupOnInitializedIndex ==
    [][/\ libraryService'.up =>
            /\ Initialized(libraryService'.libraryIndex)
            /\ libraryService'.libraryIndex # ZeroIndex
       /\ (call.op = "none" /\ call'.op \in {"GetByID", "GetBySongAlbumArtistNames"}) =>
            /\ (call'.op = "GetByID" /\ call'.err = ""
                  /\ call'.id \notin DOMAIN libraryService'.libraryIndex.tracksByID)
                 => call'.ret = {}
            /\ call'.err # "" =>
                 /\ call'.ret = {}
                 /\ Rebuilds(libraryService.libraryIndex, cacheFile, now)]_vars

\* C38 witness: a lookup that rebuilt its index from the source, of an id the
\* library does not hold: nil record, nil error, the index not empty.
C38_Witness ==
    /\ call.op = "GetByID"
    /\ call.err = ""
    /\ call.fetches > 0
    /\ call.before # ZeroTime
    /\ libraryService.libraryIndex.tracksByID # <<>>
    /\ call.id \notin DOMAIN libraryService.libraryIndex.tracksByID
    /\ call.ret = {}

\* C39: containsAll(list1, list2) is false when the lists differ in length,
\* and true only when every element of each occurs in the other; stated for
\* the calls the scan of a composite lookup makes, list1 the artist names of
\* a record of the map and list2 the query's.
C39_ContainsAllBothWays ==
    (Looked /\ Contains(TheIndex.trackSearchTree, QueryKey)) =>
        \A v \in {r \in Records : r.Name = call.songName /\ r.Album = call.albumName} :
            LET list1 == getArtistNames(v)
                list2 == SortStrings(call.artistNames)
            IN  /\ Len(list1) # Len(list2) => ~containsAll(list1, list2)
                /\ containsAll(list1, list2) =>
                      /\ Elements(list1) \subseteq Elements(list2)
                      /\ Elements(list2) \subseteq Elements(list1)

====
